---- MODULE Spec2Model ----
(***************************************************************************)
(* Task backend of the SvelteKit + Convex + Clerk template.                *)
(*                                                                         *)
(* Two variants of the Convex functions live in the repository:            *)
(*   "asserted"  convex/tasks.ts: the client passes user_id as an argument *)
(*   "derived"   the server derives the id from ctx.auth on every call     *)
(* Every Convex query/mutation runs as one serialisable transaction, so    *)
(* each handler is one atomic action.  A handler that throws rolls back.   *)
(***************************************************************************)
EXTENDS Integers, Sequences, FiniteSets, TLC

----------------------------------------------------------------------------
(* Bounds *)

\* number of document ids the storage layer can hand out in one run
MaxTasks == 2

\* number of "Task deleted" toasts that can be on screen at once
MaxToasts == 1

\* longest tokenIdentifier that identity resolution is tried on
MaxTokenLen == 3

----------------------------------------------------------------------------
(* Strings are sequences of one-character strings, so that split() is real *)

Undefined == <<"undefined">>   \* the JS value undefined (not a string)
None == "none"                 \* no error was thrown

RECURSIVE splitFrom(_, _, _)
\* String.prototype.split(sep) for a one-character separator:
\* cur is the segment being read, s the rest of the input
splitFrom(s, sep, cur) ==
    IF s = <<>> THEN <<cur>>
    ELSE IF Head(s) = sep THEN <<cur>> \o splitFrom(Tail(s), sep, <<>>)
    ELSE splitFrom(Tail(s), sep, Append(cur, Head(s)))

split(s, sep) == splitFrom(s, sep, <<>>)

\* JS array indexing (0-based); out of range reads undefined
at(arr, i) == IF i + 1 <= Len(arr) THEN arr[i + 1] ELSE Undefined

----------------------------------------------------------------------------
(* Callers and their credentials *)

Callers == {"c1", "c2", "anon"}

\* ctx.auth.getUserIdentity(): null for a caller without a verified token,
\* otherwise an identity whose tokenIdentifier is issuer|subject
NoIdentity == <<>>
tokenIdentifier(c) ==
    CASE c = "c1" -> <<"i", "|", "a">>
      [] c = "c2" -> <<"i", "|", "b">>
      [] OTHER -> NoIdentity

UserIds == {<<"a">>, <<"b">>}
Bodies == {"buy milk", "walk dog"}
TaskIds == 1..MaxTasks

\* the user id of the caller's logged-in Clerk session (what an honest
\* client passes as user_id); Undefined when signed out
sessionUserId(c) ==
    IF tokenIdentifier(c) = NoIdentity THEN Undefined
    ELSE at(split(tokenIdentifier(c), "|"), 1)

----------------------------------------------------------------------------
(* Storage layer: the tasks table *)

isString(x) == x # Undefined

\* schema.ts: every field of a task is required and typed
validTask(t) == isString(t.user_id) /\ t.isCompleted \in BOOLEAN

\* a list that forgets the index range and collects the whole table
collectByUserId_WholeTable(d, u) == DOMAIN d

\* ctx.db.query('tasks').withIndex('by_user_id', q => q.eq('user_id', u)).collect()
collectByUserId(d, u) == {i \in DOMAIN d : d[i].user_id = u}

\* an insert that hands out the lowest id no live document holds
dbInsert_ReuseId(d, n, t) ==
    LET f == CHOOSE i \in 1..n : i \notin DOMAIN d /\ \A j \in 1..(i - 1) : j \in DOMAIN d
    IN [i \in DOMAIN d \cup {f} |-> IF i = f THEN t ELSE d[i]]

\* ctx.db.insert: a fresh id, never one that was handed out before
dbInsert(d, n, t) == [i \in DOMAIN d \cup {n} |-> IF i = n THEN t ELSE d[i]]

\* a patch that replaces the document and loses its body
dbPatch_ClearsBody(d, id, v) ==
    [d EXCEPT ![id] = [taskBody |-> "", isCompleted |-> v, user_id |-> @.user_id]]

\* a patch that flips the stored flag instead of setting the given value
dbPatch_Flip(d, id, v) == [d EXCEPT ![id].isCompleted = ~@]

\* ctx.db.patch(id, {isCompleted})
dbPatch(d, id, v) == [d EXCEPT ![id].isCompleted = v]

\* a delete that drops every task of the target's owner
dbDelete_WholeOwner(d, id) ==
    [i \in {j \in DOMAIN d : d[j].user_id # d[id].user_id} |-> d[i]]

\* ctx.db.delete(id)
dbDelete(d, id) == [i \in DOMAIN d \ {id} |-> d[i]]

----------------------------------------------------------------------------
(* What one handler run leaves behind *)

\* one storage or auth step of a handler run; id = 0 and user = Undefined
\* where the step has none.  For a write, user is the owner of the document
\* written; for "authorized", the user id the ownership check accepted.
Step(call, id, user) == [call |-> call, id |-> id, user |-> user]

\* the handler threw: the transaction is rolled back
Thrown(d, n, msg, trace) ==
    [db |-> d, nextId |-> n, error |-> msg, result |-> {}, trace |-> trace]

\* the handler returned: its writes are committed
Returned(d, n, result, trace) ==
    [db |-> d, nextId |-> n, error |-> None, result |-> result, trace |-> trace]

\* a document as a query returns it
Doc(d, i) ==
    [_id |-> i, taskBody |-> d[i].taskBody, isCompleted |-> d[i].isCompleted,
     user_id |-> d[i].user_id]

----------------------------------------------------------------------------
(* convex/tasks.ts: the client-asserted variant *)

\* a gate that loads the task but never compares its owner
authorizeTaskAccess_NoOwnerCheck(d, taskId, userId) ==
    IF taskId \notin DOMAIN d
    THEN [error |-> "Task not found", task |-> {}]
    ELSE [error |-> None, task |-> {Doc(d, taskId)}]

\* a gate that folds the missing task into the not-authorized failure
authorizeTaskAccess_OneFailure(d, taskId, userId) ==
    IF taskId \notin DOMAIN d \/ d[taskId].user_id # userId
    THEN [error |-> "Not authorized to access this task", task |-> {}]
    ELSE [error |-> None, task |-> {Doc(d, taskId)}]

authorizeTaskAccess(d, taskId, userId) ==
    IF taskId \notin DOMAIN d
    THEN [error |-> "Task not found", task |-> {}]
    ELSE IF d[taskId].user_id # userId
    THEN [error |-> "Not authorized to access this task", task |-> {}]
    ELSE [error |-> None, task |-> {Doc(d, taskId)}]

\* a gate that deletes the task it refuses to hand out
authorizeTaskAccessRun_DropsRefused(d, n, taskId, userId) ==
    LET a == authorizeTaskAccess(d, taskId, userId)
    IN IF a.error \in {None, "Task not found"}
       THEN [db |-> d, nextId |-> n, error |-> a.error, result |-> a.task,
             trace |-> <<Step("db.get", taskId, Undefined)>>]
       ELSE Thrown(dbDelete(d, taskId), n, a.error,
                   <<Step("db.get", taskId, Undefined),
                     Step("db.delete", taskId, d[taskId].user_id)>>)

\* the gate as a run of its own: its one storage call is ctx.db.get, and it
\* hands back the task or throws
authorizeTaskAccessRun(d, n, taskId, userId) ==
    LET a == authorizeTaskAccess(d, taskId, userId)
    IN [db |-> d, nextId |-> n, error |-> a.error, result |-> a.task,
        trace |-> <<Step("db.get", taskId, Undefined)>>]

get(d, n, user_id) ==
    Returned(d, n, {Doc(d, i) : i \in collectByUserId(d, user_id)},
             <<Step("db.query", 0, user_id)>>)

\* a create that stores the task as already completed
create_Completed(d, n, body, user_id) ==
    LET t == [taskBody |-> body, isCompleted |-> TRUE, user_id |-> user_id]
    IN Returned(dbInsert(d, n, t), n + 1, {}, <<Step("db.insert", n, t.user_id)>>)

create(d, n, body, user_id) ==
    LET t == [taskBody |-> body, isCompleted |-> FALSE, user_id |-> user_id]
    IN Returned(dbInsert(d, n, t), n + 1, {}, <<Step("db.insert", n, t.user_id)>>)

\* an update that skips the gate and patches the owner along with the flag
update_PatchOwner(d, n, id, isCompleted, user_id) ==
    IF id \notin DOMAIN d
    THEN Thrown(d, n, "Task not found", <<Step("db.get", id, Undefined)>>)
    ELSE Returned([d EXCEPT ![id].isCompleted = isCompleted, ![id].user_id = user_id],
                  n, {}, <<Step("db.get", id, Undefined),
                           Step("db.patch", id, d[id].user_id)>>)

\* an update that patches without running the gate
update_NoGate(d, n, id, isCompleted, user_id) ==
    IF id \notin DOMAIN d
    THEN Thrown(d, n, "Task not found", <<Step("db.patch", id, Undefined)>>)
    ELSE Returned(dbPatch(d, id, isCompleted), n, {},
                  <<Step("db.patch", id, d[id].user_id)>>)

update(d, n, id, isCompleted, user_id) ==
    LET a == authorizeTaskAccess(d, id, user_id)
    IN IF a.error # None
       THEN Thrown(d, n, a.error, <<Step("db.get", id, Undefined)>>)
       ELSE Returned(dbPatch(d, id, isCompleted), n, {},
                     <<Step("db.get", id, Undefined),
                       Step("authorized", id, user_id),
                       Step("db.patch", id, d[id].user_id)>>)

remove(d, n, id, user_id) ==
    LET a == authorizeTaskAccess(d, id, user_id)
    IN IF a.error # None
       THEN Thrown(d, n, a.error, <<Step("db.get", id, Undefined)>>)
       ELSE Returned(dbDelete(d, id), n, {},
                     <<Step("db.get", id, Undefined),
                       Step("authorized", id, user_id),
                       Step("db.delete", id, d[id].user_id)>>)

\* a restore that brings a task back only once
restore_Once(d, n, task) ==
    IF \E i \in DOMAIN d : d[i] = task
    THEN Returned(d, n, {}, <<>>)
    ELSE Returned(dbInsert(d, n, task), n + 1, {}, <<Step("db.insert", n, task.user_id)>>)

restore(d, n, task) ==
    Returned(dbInsert(d, n, task), n + 1, {}, <<Step("db.insert", n, task.user_id)>>)

----------------------------------------------------------------------------
(* The server-derived variant of convex/tasks.ts *)

\* an identity helper without the null check
getAuthenticatedClerkId_NoNullCheck(c) ==
    [error |-> None, id |-> at(split(tokenIdentifier(c), "|"), 1)]

\* the body of getAuthenticatedClerkId, given what getUserIdentity() returned
clerkIdOf(identity) ==
    IF identity = NoIdentity
    THEN [error |-> "Not authenticated", id |-> Undefined]
    ELSE [error |-> None, id |-> at(split(identity, "|"), 1)]

\* c is the caller whose credential ctx.auth holds
getAuthenticatedClerkId(c) == clerkIdOf(tokenIdentifier(c))

AuthStep == Step("auth.getUserIdentity", 0, Undefined)

\* ctx.db.insert under schemaValidation: a document that does not match the
\* table's validator is refused
insertDerived(d, n, t, trace) ==
    IF ~validTask(t)
    THEN Thrown(d, n, "Schema validation failed", trace)
    ELSE Returned(dbInsert(d, n, t), n + 1, {},
                  Append(trace, Step("db.insert", n, t.user_id)))

getDerived(d, n, c) ==
    LET auth == getAuthenticatedClerkId(c)
    IN IF auth.error # None
       THEN Thrown(d, n, auth.error, <<AuthStep>>)
       ELSE Returned(d, n, {Doc(d, i) : i \in collectByUserId(d, auth.id)},
                     <<AuthStep, Step("db.query", 0, auth.id)>>)

createDerived(d, n, c, body) ==
    LET auth == getAuthenticatedClerkId(c)
    IN IF auth.error # None
       THEN Thrown(d, n, auth.error, <<AuthStep>>)
       ELSE insertDerived(d, n, [taskBody |-> body, isCompleted |-> FALSE,
                                 user_id |-> auth.id], <<AuthStep>>)

updateDerived(d, n, c, id, isCompleted) ==
    LET auth == getAuthenticatedClerkId(c)
    IN IF auth.error # None
       THEN Thrown(d, n, auth.error, <<AuthStep>>)
       ELSE IF id \notin DOMAIN d \/ d[id].user_id # auth.id
       THEN Thrown(d, n, "Not authorized to update this task",
                   <<AuthStep, Step("db.get", id, Undefined)>>)
       ELSE Returned(dbPatch(d, id, isCompleted), n, {},
                     <<AuthStep, Step("db.get", id, Undefined),
                       Step("authorized", id, auth.id),
                       Step("db.patch", id, d[id].user_id)>>)

\* a remove that checks the credential but not the owner of the task
removeDerived_NoOwnerCheck(d, n, c, id) ==
    LET auth == getAuthenticatedClerkId(c)
    IN IF auth.error # None
       THEN Thrown(d, n, auth.error, <<AuthStep>>)
       ELSE IF id \notin DOMAIN d
       THEN Thrown(d, n, "Not authorized to delete this task",
                   <<AuthStep, Step("db.get", id, Undefined)>>)
       ELSE Returned(dbDelete(d, id), n, {},
                     <<AuthStep, Step("db.get", id, Undefined),
                       Step("authorized", id, auth.id),
                       Step("db.delete", id, d[id].user_id)>>)

removeDerived(d, n, c, id) ==
    LET auth == getAuthenticatedClerkId(c)
    IN IF auth.error # None
       THEN Thrown(d, n, auth.error, <<AuthStep>>)
       ELSE IF id \notin DOMAIN d \/ d[id].user_id # auth.id
       THEN Thrown(d, n, "Not authorized to delete this task",
                   <<AuthStep, Step("db.get", id, Undefined)>>)
       ELSE Returned(dbDelete(d, id), n, {},
                     <<AuthStep, Step("db.get", id, Undefined),
                       Step("authorized", id, auth.id),
                       Step("db.delete", id, d[id].user_id)>>)

restoreDerived(d, n, c, task) ==
    LET auth == getAuthenticatedClerkId(c)
    IN IF auth.error # None
       THEN Thrown(d, n, auth.error, <<AuthStep>>)
       ELSE insertDerived(d, n, [taskBody |-> task.taskBody,
                                 isCompleted |-> task.isCompleted,
                                 user_id |-> auth.id], <<AuthStep>>)

\* the failure conditions of the error taxonomy, by the message thrown
NotFound == {"Task not found"}
Forbidden == {"Not authorized to access this task",
              "Not authorized to update this task",
              "Not authorized to delete this task"}
Unauthenticated == {"Not authenticated"}

----------------------------------------------------------------------------
(* State *)

VARIABLES
    variant,   \* which variant of convex/tasks.ts is deployed
    db,        \* the tasks table: live document id -> task
    nextId,    \* the next id the storage layer hands out
    last,      \* the latest handler run: who called what, and what it did
    probe,     \* identity resolution applied to two credentials
    view,      \* the signed-in client's query.data: the tasks it was sent last
    undo,      \* the "Task deleted" toasts on screen, each holding a snapshot
    form,      \* the create form: taskBody, mutationLoading, request in flight
    ev,        \* what the latest UI handler run ended with
    req,       \* the page request the server is answering, and its redirects
    layout     \* the dashboard layout in the browser

uiVars == <<view, undo, form, ev>>
navVars == <<req, layout>>
vars == <<variant, db, nextId, last, probe, view, undo, form, ev, req, layout>>

\* the arguments of a call; fields a function does not take hold a default
Args(user_id, id, isCompleted, body) ==
    [user_id |-> user_id, id |-> id, isCompleted |-> isCompleted, body |-> body]

NoArgs == Args(Undefined, 0, FALSE, "")

NoCall == [op |-> "init", caller |-> "anon", args |-> NoArgs,
           error |-> None, result |-> {}, trace |-> <<>>,
           before |-> <<>>, repeat |-> FALSE]

\* no credential has been resolved
NotRun == [error |-> "not run", id |-> Undefined]
NoProbe == [a |-> NoIdentity, b |-> NoIdentity, ra |-> NotRun, rb |-> NotRun]

\* the task form as mounted: let taskBody = $state(''), mutationLoading = $state(false)
\* pending: the bodies of the create mutations in flight, oldest first
FormMounted == [taskBody |-> "", mutationLoading |-> FALSE, pending |-> <<>>]

NoEvent == [kind |-> "none", error |-> None, shown |-> "none",
            unhandled |-> FALSE, restored |-> {}]

\* no page request yet
NoRequest == [phase |-> "idle", routeId |-> <<>>, userId |-> Undefined,
              status |-> 0, location |-> "", resolved |-> FALSE,
              authChecked |-> FALSE, trail |-> <<>>]

\* the dashboard layout is not in the page
NotMounted == [mounted |-> FALSE, isLoaded |-> FALSE, effectDue |-> FALSE,
               authSet |-> FALSE, shown |-> {}, queried |-> FALSE]

\* the browser before any page request and before any query result
UiInit ==
    /\ view = {}
    /\ undo = {}
    /\ form = FormMounted
    /\ ev = NoEvent
    /\ req = NoRequest
    /\ layout = NotMounted

Init ==
    /\ variant \in {"asserted", "derived"}
    /\ db = <<>>
    /\ nextId = 1
    /\ last = NoCall
    /\ probe = NoProbe
    /\ UiInit

\* commit or roll back the run r of op called by c with args
Finish(op, c, args, r) ==
    /\ db' = r.db
    /\ nextId' = r.nextId
    /\ last' = [op |-> op, caller |-> c, args |-> args,
                error |-> r.error, result |-> r.result, trace |-> r.trace,
                before |-> db,
                repeat |-> (last.op = op /\ last.caller = c /\ last.args = args)]
    /\ UNCHANGED <<navVars, variant, probe, uiVars>>

CanInsert == nextId <= MaxTasks

----------------------------------------------------------------------------
(* Calls of the client-asserted functions: any caller, any arguments *)

Get ==
    /\ variant = "asserted"
    /\ \E c \in Callers, u \in UserIds :
         Finish("get", c, Args(u, 0, FALSE, ""), get(db, nextId, u))

Create ==
    /\ variant = "asserted"
    /\ CanInsert
    /\ \E c \in Callers, u \in UserIds, b \in Bodies :
         Finish("create", c, Args(u, 0, FALSE, b), create(db, nextId, b, u))

Update ==
    /\ variant = "asserted"
    /\ \E c \in Callers, u \in UserIds, id \in TaskIds, v \in BOOLEAN :
         Finish("update", c, Args(u, id, v, ""), update(db, nextId, id, v, u))

Remove ==
    /\ variant = "asserted"
    /\ \E c \in Callers, u \in UserIds, id \in TaskIds :
         Finish("remove", c, Args(u, id, FALSE, ""), remove(db, nextId, id, u))

Restore ==
    /\ variant = "asserted"
    /\ CanInsert
    /\ \E c \in Callers, u \in UserIds, b \in Bodies, v \in BOOLEAN :
         Finish("restore", c, Args(u, 0, v, b),
                restore(db, nextId, [taskBody |-> b, isCompleted |-> v, user_id |-> u]))

----------------------------------------------------------------------------
(* Calls of the server-derived functions *)

GetDerived ==
    /\ variant = "derived"
    /\ \E c \in Callers :
         Finish("get", c, NoArgs, getDerived(db, nextId, c))

CreateDerived ==
    /\ variant = "derived"
    /\ CanInsert
    /\ \E c \in Callers, b \in Bodies :
         Finish("create", c, Args(Undefined, 0, FALSE, b),
                createDerived(db, nextId, c, b))

UpdateDerived ==
    /\ variant = "derived"
    /\ \E c \in Callers, id \in TaskIds, v \in BOOLEAN :
         Finish("update", c, Args(Undefined, id, v, ""),
                updateDerived(db, nextId, c, id, v))

RemoveDerived ==
    /\ variant = "derived"
    /\ \E c \in Callers, id \in TaskIds :
         Finish("remove", c, Args(Undefined, id, FALSE, ""),
                removeDerived(db, nextId, c, id))

RestoreDerived ==
    /\ variant = "derived"
    /\ CanInsert
    /\ \E c \in Callers, b \in Bodies, v \in BOOLEAN :
         Finish("restore", c, Args(Undefined, 0, v, b),
                restoreDerived(db, nextId, c, [taskBody |-> b, isCompleted |-> v]))

Next ==
    \/ Get \/ Create \/ Update \/ Remove \/ Restore
    \/ GetDerived \/ CreateDerived \/ UpdateDerived \/ RemoveDerived
    \/ RestoreDerived

Spec == Init /\ [][Next]_vars

----------------------------------------------------------------------------
(* Identity resolution on its own: getAuthenticatedClerkId applied to the  *)
(* identities of two callers                                                *)

TokenChars == {"i", "|", "a"}

\* the non-empty strings of at most MaxTokenLen characters
TokenIdentifiers == UNION {[1..k -> TokenChars] : k \in 1..MaxTokenLen}

\* what getUserIdentity() can hand to the helper: null or a tokenIdentifier
Identities == TokenIdentifiers \cup {NoIdentity}

InitIdentity ==
    /\ variant = "derived"
    /\ db = <<>>
    /\ nextId = 1
    /\ last = NoCall
    /\ UiInit
    /\ \E a \in Identities, b \in Identities :
         probe = [a |-> a, b |-> b, ra |-> NotRun, rb |-> NotRun]

ResolveA ==
    /\ probe.ra = NotRun
    /\ probe' = [probe EXCEPT !.ra = clerkIdOf(probe.a)]
    /\ UNCHANGED <<navVars, variant, db, nextId, last, uiVars>>

ResolveB ==
    /\ probe.rb = NotRun
    /\ probe' = [probe EXCEPT !.rb = clerkIdOf(probe.b)]
    /\ UNCHANGED <<navVars, variant, db, nextId, last, uiVars>>

NextIdentity == ResolveA \/ ResolveB

SpecIdentity == InitIdentity /\ [][NextIdentity]_vars

----------------------------------------------------------------------------
(* A call of the deployed function by caller c: in the client-asserted     *)
(* variant u is the user_id argument, in the server-derived variant the id *)
(* comes from c's credential and u is not sent                             *)

queryGet(d, n, c, u) ==
    IF variant = "asserted" THEN get(d, n, u) ELSE getDerived(d, n, c)

mutationCreate(d, n, c, u, body) ==
    IF variant = "asserted" THEN create(d, n, body, u)
    ELSE createDerived(d, n, c, body)

mutationUpdate(d, n, c, u, id, isCompleted) ==
    IF variant = "asserted" THEN update(d, n, id, isCompleted, u)
    ELSE updateDerived(d, n, c, id, isCompleted)

mutationRemove(d, n, c, u, id) ==
    IF variant = "asserted" THEN remove(d, n, id, u)
    ELSE removeDerived(d, n, c, id)

\* toasts.taskDeleted: the payload is built from the task the UI holds
mutationRestore(d, n, c, u, task) ==
    IF variant = "asserted"
    THEN restore(d, n, [taskBody |-> task.taskBody,
                        isCompleted |-> task.isCompleted, user_id |-> u])
    ELSE restoreDerived(d, n, c, [taskBody |-> task.taskBody,
                                  isCompleted |-> task.isCompleted])

\* the caller id a call by c with user_id argument u works with
resolvedId(c, u) ==
    IF variant = "asserted" THEN u ELSE getAuthenticatedClerkId(c).id

----------------------------------------------------------------------------
(* The dashboard of one signed-in user.  useQuery pushes the task list to  *)
(* the page asynchronously, so the task a TaskItem holds can be older than *)
(* the stored one.  Each TaskItem handler runs its mutation and what       *)
(* follows the await as one step; the create form is split at its await.   *)
(* The task list with its toasts and the task form are separate components *)
(* that share only the backend: SpecItems runs the first, SpecForm the     *)
(* second.                                                                  *)

Me == "c1"
myUserId == sessionUserId(Me)

\* client.mutation settles with the function's outcome, or rejects because
\* the backend could not run it
Outcomes(r) == {r, Thrown(db, nextId, "Server Error", <<>>)}

Event(kind, error, shown, unhandled, restored) ==
    [kind |-> kind, error |-> error, shown |-> shown,
     unhandled |-> unhandled, restored |-> restored]

InitUI ==
    /\ variant \in {"asserted", "derived"}
    /\ db = <<>>
    /\ nextId = 1
    /\ last = NoCall
    /\ probe = NoProbe
    /\ UiInit

\* TaskList.svelte: the subscription delivers the current result of get
Deliver ==
    LET r == queryGet(db, nextId, Me, myUserId)
    IN /\ r.error = None
       /\ view' = r.result
       /\ view' # view
       /\ UNCHANGED <<navVars, variant, db, nextId, last, probe, undo, form, ev>>

\* TaskItem.svelte updateTask: the mutation a click on the checkbox sends,
\* computed from the task the item holds
updateTask(d, n, task) ==
    mutationUpdate(d, n, Me, myUserId, task._id, ~task.isCompleted)

\* a click on the checkbox: the promise is handed to onCheckedChange, which
\* does not catch a rejection
ToggleTask ==
    \E doc \in view :
      \E r \in Outcomes(updateTask(db, nextId, doc)) :
        /\ db' = r.db
        /\ nextId' = r.nextId
        /\ ev' = Event("toggle", r.error, "none", r.error # None, {})
        /\ UNCHANGED <<navVars, variant, last, probe, view, undo, form>>

\* a removeTask that shows the "Task deleted" toast without waiting for the
\* mutation to settle
DeleteTask_ToastBeforeAwait ==
    /\ Cardinality(undo) < MaxToasts
    /\ \E doc \in view :
         \E r \in Outcomes(mutationRemove(db, nextId, Me, myUserId, doc._id)) :
           /\ db' = r.db
           /\ nextId' = r.nextId
           /\ undo' = undo \cup {[task |-> doc, stored |-> doc]}
           /\ ev' = Event("delete", r.error, "Task deleted", r.error # None, {})
           /\ UNCHANGED <<navVars, variant, last, probe, view, form>>

\* TaskItem.svelte removeTask: on success the toast keeps the task the item
\* holds; stored is the document that was deleted, kept for comparison
DeleteTask ==
    /\ Cardinality(undo) < MaxToasts
    /\ \E doc \in view :
         \E r \in Outcomes(mutationRemove(db, nextId, Me, myUserId, doc._id)) :
           /\ db' = r.db
           /\ nextId' = r.nextId
           /\ IF r.error = None
              THEN /\ undo' = undo \cup {[task |-> doc, stored |-> Doc(db, doc._id)]}
                   /\ ev' = Event("delete", None, "Task deleted", FALSE, {})
              ELSE /\ undo' = undo
                   /\ ev' = Event("delete", r.error, "Error", FALSE, {})
           /\ UNCHANGED <<navVars, variant, last, probe, view, form>>

\* toasts.taskDeleted, Undo onClick: the mutation is neither awaited nor
\* caught; the toast closes on the click
UndoDelete ==
    \E t \in undo :
      \E r \in Outcomes(mutationRestore(db, nextId, Me, myUserId, t.task)) :
        /\ r.error = None => CanInsert
        /\ db' = r.db
        /\ nextId' = r.nextId
        /\ undo' = undo \ {t}
        /\ ev' = Event("undo", r.error, "none", r.error # None,
                       IF r.error = None
                       THEN {[entry |-> t, doc |-> Doc(r.db, nextId)]} ELSE {})
        /\ UNCHANGED <<navVars, variant, last, probe, view, form>>

\* a toast leaves the screen unused
DismissToast ==
    /\ \E t \in undo : undo' = undo \ {t}
    /\ UNCHANGED <<navVars, variant, db, nextId, last, probe, view, form, ev>>

\* the task form: bind:value={taskBody}
TypeBody ==
    /\ \E b \in Bodies \cup {""} :
         /\ b # form.taskBody
         /\ form' = [form EXCEPT !.taskBody = b]
    /\ UNCHANGED <<navVars, variant, db, nextId, last, probe, view, undo, ev>>

\* a button that is disabled on an empty body only
createDisabled_IgnoresLoading == form.taskBody = ""

\* disabled={taskBody.length < 1 || mutationLoading}
createDisabled == form.taskBody = "" \/ form.mutationLoading

\* createTask up to its await
ClickCreate ==
    /\ ~createDisabled
    /\ form' = [form EXCEPT !.mutationLoading = TRUE,
                            !.pending = Append(@, form.taskBody)]
    /\ UNCHANGED <<navVars, variant, db, nextId, last, probe, view, undo, ev>>

\* createTask after its await: the success path or the catch block
CreateSettles ==
    /\ form.pending # <<>>
    /\ \E r \in Outcomes(mutationCreate(db, nextId, Me, myUserId, Head(form.pending))) :
        /\ r.error = None => CanInsert
        /\ db' = r.db
        /\ nextId' = r.nextId
        /\ IF r.error = None
           THEN /\ form' = [taskBody |-> "", mutationLoading |-> FALSE,
                             pending |-> Tail(form.pending)]
                /\ ev' = Event("create", None, "Task Created", FALSE, {})
           ELSE /\ form' = [form EXCEPT !.pending = Tail(@)]
                /\ ev' = Event("create", r.error, "Error", FALSE, {})
        /\ UNCHANGED <<navVars, variant, last, probe, view, undo>>

\* a create by the same user commits (the task form, here or in another tab)
ElsewhereCreate ==
    /\ CanInsert
    /\ \E b \in Bodies :
         LET r == mutationCreate(db, nextId, Me, myUserId, b)
         IN r.error = None /\ db' = r.db /\ nextId' = r.nextId
    /\ UNCHANGED <<navVars, variant, last, probe, uiVars>>

\* the same user toggles a task in another tab
ElsewhereUpdate ==
    /\ \E id \in DOMAIN db, v \in BOOLEAN :
         LET r == mutationUpdate(db, nextId, Me, myUserId, id, v)
         IN r.error = None /\ r.db # db /\ db' = r.db
    /\ UNCHANGED <<navVars, variant, nextId, last, probe, uiVars>>

\* the same user deletes a task in another tab
ElsewhereRemove ==
    /\ \E id \in DOMAIN db :
         LET r == mutationRemove(db, nextId, Me, myUserId, id)
         IN r.error = None /\ db' = r.db
    /\ UNCHANGED <<navVars, variant, nextId, last, probe, uiVars>>

NextItems ==
    \/ Deliver \/ ToggleTask \/ DeleteTask \/ UndoDelete \/ DismissToast
    \/ ElsewhereCreate \/ ElsewhereUpdate \/ ElsewhereRemove

SpecItems == InitUI /\ [][NextItems]_vars

NextForm == TypeBody \/ ClickCreate \/ CreateSettles

SpecForm == InitUI /\ [][NextForm]_vars

----------------------------------------------------------------------------
(* hooks.server.ts and the layout loads: one visitor's page requests.  A   *)
(* route id is a string, written here as the sequence of its separators   *)
(* and names, so that startsWith is computed.                              *)

\* redirects a visitor's browser follows in one chain before it gives up
MaxHops == 2

\* event.route.id of a request that matches no route
NoRoute == <<"null">>

startsWith(s, prefix) ==
    Len(prefix) <= Len(s) /\ SubSeq(s, 1, Len(prefix)) = prefix

PROTECTED_ROUTE_PREFIXES == {<<"/", "(dashboard)">>}

LoginRoute == <<"/", "login">>
DashboardRoute == <<"/", "(dashboard)", "/", "dashboard">>

\* the route ids requests arrive with
RouteIds ==
    {NoRoute, <<"/">>, LoginRoute, DashboardRoute,
     <<"/", "(dashboard)">>,
     <<"/", "(dashboard)", "/", "dashboard", "/", "settings">>,
     <<"/", "dashboard">>,
     <<"/", "(marketing)", "/", "(dashboard)">>}

\* the route a redirect target leads to
routeOf(location) ==
    IF location = "/login" THEN LoginRoute
    ELSE IF location = "/dashboard" THEN DashboardRoute
    ELSE NoRoute

\* a hook that protects the prefix itself and no route below it
shouldProtect_ExactMatch(routeId) ==
    routeId # NoRoute /\ routeId \in PROTECTED_ROUTE_PREFIXES

\* routeId && PROTECTED_ROUTE_PREFIXES.some((prefix) => routeId.startsWith(prefix))
shouldProtect(routeId) ==
    routeId # NoRoute /\ \E prefix \in PROTECTED_ROUTE_PREFIXES : startsWith(routeId, prefix)

\* what a handle or a load did with the request
Redirect(status, location, authChecked) ==
    [status |-> status, location |-> location, resolved |-> FALSE,
     authChecked |-> authChecked]

Resolve(authChecked) ==
    [status |-> 0, location |-> "", resolved |-> TRUE, authChecked |-> authChecked]

\* userId is Undefined when the session has no user
authRedirectHandle(routeId, userId) ==
    IF shouldProtect(routeId)
    THEN IF userId = Undefined THEN Redirect(302, "/login", TRUE)
         ELSE Resolve(TRUE)
    ELSE Resolve(FALSE)

\* a login layout that sends every visitor to the dashboard
loginLoad_AlwaysRedirects(userId) == Redirect(307, "/dashboard", TRUE)

\* load of the login layout
loginLoad(userId) ==
    IF userId # Undefined THEN Redirect(307, "/dashboard", TRUE)
    ELSE Resolve(TRUE)

\* load of routes/(dashboard)/+layout.server.ts: returns the user id
dashboardLoad(userId) == Resolve(TRUE)

\* the layout load that runs when the route is resolved
load(routeId, userId) ==
    IF routeId = LoginRoute THEN loginLoad(userId)
    ELSE IF routeId # NoRoute /\ startsWith(routeId, <<"/", "(dashboard)">>)
    THEN dashboardLoad(userId)
    ELSE Resolve(FALSE)

NewRequest(routeId, userId, trail) ==
    [phase |-> "handle", routeId |-> routeId, userId |-> userId,
     status |-> 0, location |-> "", resolved |-> FALSE,
     authChecked |-> FALSE, trail |-> trail]

\* a visitor navigates to a page
Request ==
    /\ req.phase \in {"idle", "served"}
    /\ \E c \in Callers, r \in RouteIds :
         req' = NewRequest(r, sessionUserId(c), <<>>)
    /\ layout' = NotMounted
    /\ UNCHANGED <<variant, db, nextId, last, probe, uiVars>>

\* handle = sequence(clerkHandle, authRedirectHandle), once clerkHandle has
\* set locals.auth
Handle ==
    /\ req.phase = "handle"
    /\ LET h == authRedirectHandle(req.routeId, req.userId)
       IN req' = [req EXCEPT !.phase = IF h.resolved THEN "load" ELSE "redirected",
                             !.status = h.status, !.location = h.location,
                             !.resolved = h.resolved, !.authChecked = h.authChecked]
    /\ UNCHANGED <<variant, db, nextId, last, probe, uiVars, layout>>

\* resolve(event): the route's layout load, then the page (404 without a route)
Load ==
    /\ req.phase = "load"
    /\ LET l == load(req.routeId, req.userId)
       IN req' = [req EXCEPT !.phase = IF l.resolved THEN "served" ELSE "redirected",
                             !.status = IF ~l.resolved THEN l.status
                                        ELSE IF req.routeId = NoRoute THEN 404 ELSE 200,
                             !.location = l.location]
    /\ UNCHANGED <<variant, db, nextId, last, probe, uiVars, layout>>

\* the browser follows the redirect with the same session
Follow ==
    /\ req.phase = "redirected"
    /\ Len(req.trail) < MaxHops
    /\ req' = NewRequest(routeOf(req.location), req.userId,
                         Append(req.trail, [routeId |-> req.routeId, status |-> req.status]))
    /\ UNCHANGED <<variant, db, nextId, last, probe, uiVars, layout>>

(* routes/(dashboard)/+layout.svelte in the browser *)

\* a layout that renders its children whatever Clerk reports
render_NoGate(clerkIsLoaded) == {"sidebar", "children"}

\* {#if !clerkIsLoaded} placeholder {:else} sidebar and children {/if}
render(clerkIsLoaded) ==
    IF ~clerkIsLoaded THEN {"Loading authentication..."}
    ELSE {"sidebar", "children"}

\* $effect: does this run call convexClient.setAuth(tokenFetcher)?
effectSetsAuth(clerkIsLoaded) == clerkIsLoaded

\* the served dashboard page starts: the layout is created, Clerk already
\* loaded or still loading
MountLayout ==
    /\ req.phase = "served"
    /\ req.status = 200
    /\ startsWith(req.routeId, <<"/", "(dashboard)">>)
    /\ ~layout.mounted
    /\ \E loaded \in BOOLEAN :
         layout' = [mounted |-> TRUE, isLoaded |-> loaded, effectDue |-> TRUE,
                    authSet |-> FALSE, shown |-> render(loaded), queried |-> FALSE]
    /\ UNCHANGED <<variant, db, nextId, last, probe, uiVars, req>>

\* clerkCtx.isLoaded turns true: the template and the effect run again
ClerkLoaded ==
    /\ layout.mounted
    /\ ~layout.isLoaded
    /\ layout' = [layout EXCEPT !.isLoaded = TRUE, !.effectDue = TRUE,
                                !.shown = render(TRUE)]
    /\ UNCHANGED <<variant, db, nextId, last, probe, uiVars, req>>

RunEffect ==
    /\ layout.effectDue
    /\ layout' = [layout EXCEPT !.effectDue = FALSE,
                                !.authSet = @ \/ effectSetsAuth(layout.isLoaded)]
    /\ UNCHANGED <<variant, db, nextId, last, probe, uiVars, req>>

\* a child page is in the document: TaskList subscribes to api.tasks.get
ChildQuery ==
    /\ "children" \in layout.shown
    /\ ~layout.queried
    /\ layout' = [layout EXCEPT !.queried = TRUE]
    /\ UNCHANGED <<variant, db, nextId, last, probe, uiVars, req>>

NextRoutes ==
    \/ Request \/ Handle \/ Load \/ Follow
    \/ MountLayout \/ ClerkLoaded \/ RunEffect \/ ChildQuery

SpecRoutes == InitUI /\ [][NextRoutes]_vars

----------------------------------------------------------------------------
(* Vocabulary of the properties *)

\* the caller id the latest run worked with: the user_id argument in the
\* client-asserted variant, the id derived from the credential otherwise
resolvedCaller ==
    IF variant = "asserted" THEN last.args.user_id
    ELSE getAuthenticatedClerkId(last.caller).id

Writes == {"db.patch", "db.delete", "db.insert"}
StorageCalls == Writes \cup {"db.get", "db.query"}

\* the latest run was update or remove, aimed at a task that existed
TargetExisted ==
    /\ last.op \in {"update", "remove"}
    /\ last.args.id \in DOMAIN last.before


----------------------------------------------------------------------------
(* C1 *)

\* C1: for distinct callers A and B and every stored task owned by A, the
\* ownership gate called with that task's id and caller B fails with
\* Forbidden and returns no record; so does every update or remove of
\* tasks.ts that ran the gate for a caller other than the owner.
C1_GateForbidsOtherCaller ==
    /\ \A id \in DOMAIN db : \A B \in UserIds :
         db[id].user_id # B =>
           /\ authorizeTaskAccess(db, id, B).error \in Forbidden
           /\ authorizeTaskAccess(db, id, B).task = {}
    /\ (variant = "asserted" /\ TargetExisted
          /\ last.before[last.args.id].user_id # last.args.user_id)
         => last.error \in Forbidden

C1_Witness ==
    /\ variant = "asserted"
    /\ TargetExisted
    /\ last.before[last.args.id].user_id # last.args.user_id
    /\ last.args.user_id \in UserIds

(* C2 *)

\* C2: for every caller A and every task id not present in storage (never
\* created, or already deleted), the ownership gate fails with NotFound.
C2_GateNotFoundForMissingId ==
    /\ \A id \in TaskIds \ DOMAIN db : \A A \in UserIds :
         /\ authorizeTaskAccess(db, id, A).error \in NotFound
         /\ authorizeTaskAccess(db, id, A).task = {}
    /\ (variant = "asserted" /\ last.op \in {"update", "remove"}
          /\ last.args.id \notin DOMAIN last.before)
         => last.error \in NotFound

\* the gate ran on an id that had been handed out and deleted, while a
\* never-created id was still free
C2_Witness ==
    /\ variant = "asserted"
    /\ last.op \in {"update", "remove"}
    /\ last.args.id \notin DOMAIN last.before
    /\ last.args.id < nextId
    /\ nextId \in TaskIds

(* C3 *)

\* C3: list(A) returns exactly the stored tasks whose owner is A: every task
\* owned by A is returned, unaltered, and no task of another owner is.
C3_ListReturnsExactlyOwnTasks ==
    (last.op = "get" /\ last.error = None) =>
      /\ \A i \in DOMAIN last.before :
           last.before[i].user_id = resolvedCaller
             => Doc(last.before, i) \in last.result
      /\ \A doc \in last.result :
           /\ doc.user_id = resolvedCaller
           /\ doc._id \in DOMAIN last.before
           /\ doc = Doc(last.before, doc._id)

\* a list that returned a task while another owner's task was stored
C3_Witness ==
    /\ last.op = "get"
    /\ last.error = None
    /\ last.result # {}
    /\ \E i \in DOMAIN last.before : last.before[i].user_id # resolvedCaller

(* C4 *)

\* C4: no caller observes through list, or mutates through update, delete or
\* restore, a task whose owner differs from the caller's own identity, and
\* no task is created or restored with an owner other than the identity of
\* the caller that made the call.
C4_NoAccessAcrossOwners ==
    /\ \A doc \in last.result : doc.user_id = sessionUserId(last.caller)
    /\ \A k \in 1..Len(last.trace) :
         last.trace[k].call \in Writes
           => last.trace[k].user = sessionUserId(last.caller)

(* C5 *)

\* C5: update or delete called for a caller who is not the owner of the
\* target task fails, and the whole task collection is the same before and
\* after the call.
C5_NonOwnerMutationFailsUnchanged ==
    (TargetExisted /\ last.before[last.args.id].user_id # resolvedCaller)
      => /\ last.error # None
         /\ db = last.before

\* a non-owner's update that asked for the opposite completed flag
C5_Witness ==
    /\ TargetExisted
    /\ last.op = "update"
    /\ last.before[last.args.id].user_id # resolvedCaller
    /\ resolvedCaller \in UserIds
    /\ last.args.isCompleted # last.before[last.args.id].isCompleted

(* C6 *)

\* C6: in every run of update and delete, the patch or delete step comes
\* only after the ownership check for the same task id and the same caller
\* has succeeded within that run.
C6_WriteOnlyAfterOwnershipCheck ==
    \A k \in 1..Len(last.trace) :
      last.trace[k].call \in {"db.patch", "db.delete"} =>
        /\ \E j \in 1..(k - 1) :
             last.trace[j] = Step("authorized", last.trace[k].id, resolvedCaller)
        /\ last.trace[k].id \in DOMAIN last.before
        /\ last.before[last.trace[k].id].user_id = resolvedCaller

C6_Witness ==
    /\ last.op = "remove"
    /\ last.error = None
    /\ last.args.id \notin DOMAIN db

(* C7 *)

\* C7: every record created by restore has as owner the identity of the
\* caller that invoked restore, whatever task payload the caller supplies.
C7_RestoreStampsCaller ==
    (last.op = "restore" /\ last.error = None) =>
      \A i \in DOMAIN db \ DOMAIN last.before :
        db[i].user_id = sessionUserId(last.caller)

(* C8 *)

\* C8: in the server-derived variant, a call whose caller has no identity
\* fails with Unauthenticated before any storage read or write: the task
\* collection is unchanged and no task is returned.
C8_UnauthenticatedStopsEveryOperation ==
    (variant = "derived" /\ last.op # "init"
       /\ tokenIdentifier(last.caller) = NoIdentity) =>
      /\ last.error \in Unauthenticated
      /\ db = last.before
      /\ last.result = {}
      /\ \A k \in 1..Len(last.trace) : last.trace[k].call \notin StorageCalls

\* a signed-out caller aimed remove at a stored task
C8_Witness ==
    /\ variant = "derived"
    /\ tokenIdentifier(last.caller) = NoIdentity
    /\ last.op = "remove"
    /\ last.args.id \in DOMAIN last.before

(* C9 *)

\* C9: update and delete aimed at a task id that does not exist fail with
\* NotFound, not with Forbidden, in every variant of the handlers.
C9_MissingTargetIsNotFound ==
    (last.op \in {"update", "remove"}
       /\ last.args.id \notin DOMAIN last.before
       /\ last.error \notin Unauthenticated)
      => last.error \in NotFound

(* C10 *)

\* C10: calling update(task, v) twice in a row as the owner yields the same
\* task collection as calling it once: the second call changes nothing.
C10_UpdateIdempotent ==
    (last.op = "update" /\ last.error = None /\ last.repeat)
      => db = last.before

C10_Witness ==
    /\ last.op = "update"
    /\ last.error = None
    /\ last.repeat

(* C12 *)

\* C12: when a caller who owns exactly one task deletes it and then invokes
\* restore once with that task's snapshot, list for that caller returns
\* exactly one task, with the snapshot's body, under an id that differs from
\* the deleted task's id and from every id handed out before.
C12_DeleteRestoreListsOneNewId ==
    \A c \in Callers, u \in UserIds :
      LET A == resolvedId(c, u)
          owned == collectByUserId(db, A)
      IN (A \in UserIds /\ Cardinality(owned) = 1) =>
           LET t == CHOOSE i \in owned : TRUE
               r1 == mutationRemove(db, nextId, c, u, t)
               r2 == mutationRestore(r1.db, r1.nextId, c, u, Doc(db, t))
               r3 == queryGet(r2.db, r2.nextId, c, u)
           IN /\ r1.error = None /\ r2.error = None /\ r3.error = None
              /\ Cardinality(r3.result) = 1
              /\ \A doc \in r3.result :
                   /\ doc._id # t
                   /\ doc._id \notin 1..(nextId - 1)
                   /\ doc.taskBody = db[t].taskBody

\* a restore that gave its caller one task again after a delete had left the
\* caller with none
C12_Witness ==
    /\ last.op = "restore"
    /\ last.error = None
    /\ collectByUserId(last.before, resolvedCaller) = {}
    /\ Cardinality(collectByUserId(db, resolvedCaller)) = 1
    /\ \E i \in 1..(nextId - 1) : i \notin DOMAIN db

(* C13 *)

\* C13: create with body b by resolved caller A adds exactly one task, with
\* body b, completed = false, owner A and an id no existing task uses, and
\* a following list(A) contains that task.
C13_CreateAddsOneOwnTask ==
    (last.op = "create" /\ last.error = None) =>
      LET new == DOMAIN db \ DOMAIN last.before
      IN /\ Cardinality(new) = 1
         /\ \A i \in DOMAIN last.before :
              i \in DOMAIN db /\ db[i] = last.before[i]
         /\ \A i \in new :
              /\ db[i] = [taskBody |-> last.args.body, isCompleted |-> FALSE,
                          user_id |-> resolvedCaller]
              /\ Doc(db, i) \in
                   queryGet(db, nextId, last.caller, last.args.user_id).result

\* a create that added a task next to an existing one
C13_Witness ==
    /\ last.op = "create"
    /\ last.error = None
    /\ last.before # <<>>

(* C14 *)

\* C14: no call changes the owner of an existing task, and an id that has
\* left storage never comes back, so a task has the same owner in every
\* state in which it exists.
C14_OwnerFixedAtCreation ==
    [][/\ \A i \in DOMAIN db \cap DOMAIN db' : db'[i].user_id = db[i].user_id
       /\ \A i \in DOMAIN db' \ DOMAIN db : i >= nextId
       /\ \A i \in DOMAIN db' : i < nextId'
       /\ nextId' >= nextId]_vars

\* an update that changed a stored task
C14_Witness ==
    /\ last.op = "update"
    /\ last.error = None
    /\ db # last.before

(* C19 *)

\* C19: a successful update changes only the completed flag of the target
\* task: its body and owner, the set of task ids and every other task stay
\* as they were.
C19_UpdateTouchesOnlyCompleted ==
    (last.op = "update" /\ last.error = None) =>
      /\ DOMAIN db = DOMAIN last.before
      /\ last.args.id \in DOMAIN db
      /\ \A i \in DOMAIN db \ {last.args.id} : db[i] = last.before[i]
      /\ db[last.args.id].taskBody = last.before[last.args.id].taskBody
      /\ db[last.args.id].user_id = last.before[last.args.id].user_id
      /\ db[last.args.id].isCompleted = last.args.isCompleted

\* an update that flipped the flag while another task was stored
C19_Witness ==
    /\ last.op = "update"
    /\ last.error = None
    /\ Cardinality(DOMAIN db) > 1
    /\ db[last.args.id].isCompleted # last.before[last.args.id].isCompleted

(* C20 *)

\* C20: a successful delete removes exactly the target task: the target id
\* is gone and every other task, of any owner, is present and unchanged.
C20_RemoveDeletesOnlyTarget ==
    (last.op = "remove" /\ last.error = None) =>
      /\ last.args.id \in DOMAIN last.before
      /\ DOMAIN db = DOMAIN last.before \ {last.args.id}
      /\ \A i \in DOMAIN db : db[i] = last.before[i]

\* a delete that left another task of the same owner in storage
C20_Witness ==
    /\ last.op = "remove"
    /\ last.error = None
    /\ \E i \in DOMAIN db :
         db[i].user_id = last.before[last.args.id].user_id

(* C15 *)

\* C15: identity resolution is injective: two callers whose credentials
\* carry different token identifiers never resolve to the same id.
C15_DifferentTokensDifferentIds ==
    (/\ probe.ra # NotRun /\ probe.rb # NotRun
     /\ probe.ra.error = None /\ probe.rb.error = None
     /\ probe.a # probe.b)
      => probe.ra.id # probe.rb.id

(* C16 *)

\* C16: identity resolution fails with Unauthenticated whenever the
\* credential is absent or its token identifier has no second '|' segment
\* or an empty one; it never returns an undefined or empty id.
C16_UnparsableTokenIsUnauthenticated ==
    probe.ra # NotRun =>
      /\ (\/ probe.a = NoIdentity
          \/ Len(split(probe.a, "|")) < 2
          \/ at(split(probe.a, "|"), 1) = <<>>)
           => probe.ra.error \in Unauthenticated
      /\ probe.ra.error = None => probe.ra.id \notin {Undefined, <<>>}

(* C21 *)

\* C21: the ownership gate is read-only: whether it succeeds, fails with
\* NotFound or fails with Forbidden, the task collection after the gate call
\* is the one before it, and the gate issues no write; an update or remove
\* of tasks.ts that the gate stopped leaves the collection as it was.
C21_GateIsReadOnly ==
    /\ \A id \in TaskIds, u \in UserIds :
         LET g == authorizeTaskAccessRun(db, nextId, id, u)
         IN /\ g.db = db
            /\ g.nextId = nextId
            /\ \A k \in DOMAIN g.trace : g.trace[k].call \notin Writes
            /\ g.error \in {None} \cup NotFound \cup Forbidden
    /\ (variant = "asserted" /\ last.op \in {"update", "remove"}
          /\ last.error \in NotFound \cup Forbidden)
         => (db = last.before
             /\ \A k \in DOMAIN last.trace : last.trace[k].call \notin Writes)
    /\ (variant = "asserted" /\ last.op \in {"update", "remove"}
          /\ last.error = None)
         => \A k \in DOMAIN last.trace :
              last.trace[k].call \in Writes =>
                \E j \in 1..(k - 1) : last.trace[j].call = "authorized"

\* on one table the gate succeeds, fails NotFound and fails Forbidden, and
\* the latest update or remove was stopped by the gate
C21_Witness ==
    /\ variant = "asserted"
    /\ last.op \in {"update", "remove"}
    /\ last.error \in Forbidden
    /\ \E i \in TaskIds, j \in TaskIds, u \in UserIds, w \in UserIds :
         /\ authorizeTaskAccessRun(db, nextId, i, u).error = None
         /\ authorizeTaskAccessRun(db, nextId, j, u).error \in NotFound
         /\ authorizeTaskAccessRun(db, nextId, i, w).error \in Forbidden

(* C22 *)

\* C22: each call being one atomic authorize-then-mutate step, in both
\* orders of an update and a delete of the same task by its owner: an update
\* ordered after the delete fails with NotFound and writes nothing, and the
\* deleted task does not reappear under its id, whether the update came
\* first or last and whatever is restored afterwards.
C22_UpdateAfterDeleteIsNotFound ==
    \A c \in Callers, u \in UserIds, t \in DOMAIN db, v \in BOOLEAN :
      (resolvedId(c, u) = db[t].user_id) =>
        LET d1 == mutationRemove(db, nextId, c, u, t)
            u1 == mutationUpdate(d1.db, d1.nextId, c, u, t, v)
            u2 == mutationUpdate(db, nextId, c, u, t, v)
            d2 == mutationRemove(u2.db, u2.nextId, c, u, t)
            r1 == mutationRestore(u1.db, u1.nextId, c, u, Doc(db, t))
        IN /\ d1.error = None /\ u2.error = None /\ d2.error = None
           /\ u1.error \in NotFound
           /\ u1.db = d1.db
           /\ \A k \in DOMAIN u1.trace : u1.trace[k].call \notin Writes
           /\ t \notin DOMAIN u1.db
           /\ t \notin DOMAIN d2.db
           /\ t \notin DOMAIN r1.db

(* C23 *)

\* C23: the create form never has more than one create mutation in flight:
\* while a create request is pending the in-flight flag is true and the
\* Create Task button is disabled.
C23_OneCreateInFlight ==
    /\ Len(form.pending) <= 1
    /\ form.pending # <<>> => (form.mutationLoading /\ createDisabled)

\* a second create is in flight after the first has completed, and the
\* user has typed the next body already
C23_Witness ==
    /\ Len(form.pending) = 1
    /\ form.taskBody # ""
    /\ form.taskBody # Head(form.pending)
    /\ DOMAIN db # {}

(* C24 *)

\* C24: the undo action is offered only by a delete that completed
\* successfully, for the task that delete removed; a failed delete shows only
\* the error notification and offers no undo; every toast on screen belongs
\* to a task that is gone, and a restore is issued only from such a toast.
C24_UndoOnlyAfterSuccessfulDelete ==
    [][/\ \A t \in undo' \ undo :
            /\ ev'.kind = "delete" /\ ev'.error = None
            /\ t.task._id \in DOMAIN db \ DOMAIN db'
       /\ (ev' # ev /\ ev'.kind = "delete" /\ ev'.error # None) =>
            (ev'.shown = "Error" /\ undo' = undo /\ db' = db)
       /\ \A t \in undo' : t.task._id \notin DOMAIN db'
       /\ (ev' # ev /\ ev'.kind = "undo") =>
            /\ \E t \in undo : undo' = undo \ {t} /\ t.task._id \notin DOMAIN db
            /\ \A x \in ev'.restored : x.entry \in undo]_vars

\* a delete of a task that was already gone has just failed, after an
\* earlier delete had succeeded and been undone or followed by a create
C24_Witness ==
    /\ ev.kind = "delete"
    /\ ev.error \in NotFound \cup Forbidden
    /\ ev.shown = "Error"
    /\ undo = {}
    /\ \E i \in 1..(nextId - 1) : i \notin DOMAIN db
    /\ DOMAIN db # {}

(* C25 *)

\* C25: each click on a task's checkbox by its owner inverts the stored
\* completed flag: from a list that shows the stored task, one click leaves
\* the flag inverted once, and two clicks issued before the subscription has
\* delivered the result of the first leave it inverted twice.
C25_EachClickInvertsStoredFlag ==
    \A task \in view :
      (task._id \in DOMAIN db /\ Doc(db, task._id) = task) =>
        LET click1 == updateTask(db, nextId, task)
            click2 == updateTask(click1.db, click1.nextId, task)
        IN /\ click1.error = None
           /\ click1.db[task._id].isCompleted = ~db[task._id].isCompleted
           /\ click2.error = None
           /\ click2.db[task._id].isCompleted = ~~db[task._id].isCompleted

(* C26 *)

\* C26: restore is a plain create with no link to a deleted task: every
\* restore by an authenticated caller succeeds and adds exactly one task,
\* under a fresh id, with the body and flag given and nothing else changed;
\* invoked twice with one snapshot it leaves two more tasks with that body
\* and flag, also on a table from which nothing was ever deleted.
C26_RestoreIsPlainCreate ==
    /\ (last.op = "restore" /\ resolvedCaller \in UserIds) =>
         /\ last.error = None
         /\ nextId - 1 \notin DOMAIN last.before
         /\ DOMAIN db = DOMAIN last.before \cup {nextId - 1}
         /\ db[nextId - 1] = [taskBody |-> last.args.body,
                              isCompleted |-> last.args.isCompleted,
                              user_id |-> resolvedCaller]
         /\ \A j \in DOMAIN last.before : db[j] = last.before[j]
    /\ \A c \in Callers, u \in UserIds, b \in Bodies, v \in BOOLEAN :
         LET A == resolvedId(c, u)
             t == [taskBody |-> b, isCompleted |-> v, user_id |-> A]
             copies(d) == Cardinality({i \in DOMAIN d : d[i] = t})
             r1 == mutationRestore(db, nextId, c, u, t)
             r2 == mutationRestore(r1.db, r1.nextId, c, u, t)
         IN A \in UserIds =>
              /\ r1.error = None /\ r2.error = None
              /\ copies(r1.db) = copies(db) + 1
              /\ copies(r2.db) = copies(db) + 2
              /\ Cardinality(DOMAIN r2.db) = Cardinality(DOMAIN db) + 2

\* the same restore ran twice on a table from which nothing was ever
\* deleted, and left two tasks that differ in their id only
C26_Witness ==
    /\ last.op = "restore"
    /\ last.error = None
    /\ last.repeat
    /\ DOMAIN db = 1..(nextId - 1)
    /\ \E i \in DOMAIN db, j \in DOMAIN db : i # j /\ db[i] = db[j]

(* C27 *)

\* C27: a request whose route id starts with '/(dashboard)' is answered
\* with a 302 redirect to /login, the route never resolved, when the session
\* has no user id, and is resolved when it has one; a request to any other
\* route is resolved without an auth check.
C27_ProtectedRoutesNeedSession ==
    req.phase \notin {"idle", "handle"} =>
      IF req.routeId # NoRoute /\ startsWith(req.routeId, <<"/", "(dashboard)">>)
      THEN IF req.userId = Undefined
           THEN /\ req.phase = "redirected"
                /\ req.status = 302 /\ req.location = "/login"
                /\ ~req.resolved
           ELSE req.resolved /\ req.phase \in {"load", "served"}
      ELSE req.resolved /\ ~req.authChecked

\* a signed-out visitor asked for a page below the dashboard and was sent to
\* the login page
C27_Witness ==
    /\ req.routeId = <<"/", "(dashboard)", "/", "dashboard", "/", "settings">>
    /\ req.userId = Undefined
    /\ req.phase = "redirected"
    /\ req.status = 302

(* C28 *)

C29_ChildrenOnlyWhenClerkLoaded ==
    layout.mounted =>
      /\ "children" \in layout.shown => layout.isLoaded
      /\ ~layout.isLoaded => layout.shown = {"Loading authentication..."}
      /\ layout.queried => layout.isLoaded
      /\ layout.authSet => layout.isLoaded

\* the effect has run while Clerk was still loading, and installed nothing
C29_Witness ==
    /\ layout.mounted
    /\ ~layout.isLoaded
    /\ ~layout.effectDue
    /\ ~layout.authSet
    /\ layout.shown = {"Loading authentication..."}

(* C11 *)

\* C11: for every task with body b and completed flag c, a successful
\* delete by its owner followed by restore with the snapshot the UI captured
\* at delete time produces a task with body b and completed flag c, owned
\* by the acting caller.
C11_UndoRecreatesDeletedTask ==
    (ev.kind = "undo" /\ ev.error = None) =>
      \A x \in ev.restored :
        /\ x.doc.taskBody = x.entry.stored.taskBody
        /\ x.doc.isCompleted = x.entry.stored.isCompleted
        /\ x.doc.user_id = myUserId

(* C17 *)

\* C17: every authorization failure raised by update, delete or restore
\* when triggered from the UI is caught by the UI layer and shown as an
\* error notification; none is left as an unhandled rejection.
C17_AuthFailureCaughtAndShown ==
    (ev.kind \in {"toggle", "delete", "undo"}
       /\ ev.error \in NotFound \cup Forbidden \cup Unauthenticated)
      => (ev.shown = "Error" /\ ~ev.unhandled)

(* C18 *)

\* C18: after a create request from the task form has failed, an error
\* toast is shown and the in-flight flag is back to false, so that with a
\* non-empty body the Create Task button is enabled again.
C18_FailedCreateCanBeRetried ==
    (ev.kind = "create" /\ ev.error # None /\ form.pending = <<>>)
      => (ev.shown = "Error" /\ ~form.mutationLoading)

====
